---- MODULE Spec2Model ----
(***************************************************************************)
(* waki: multipart/form-data encoding (eager Form::build and the pull      *)
(* based StreamingFormReader) and the flow-controlled outgoing body        *)
(* writers (write_to_outgoing_body, stream_to_outgoing_body).              *)
(*                                                                         *)
(* Bytes are one-character strings; a byte string is a sequence of them.   *)
(* Option<T> is a sequence of length 0 (None) or 1 (Some).                 *)
(***************************************************************************)
EXTENDS Integers, Sequences, FiniteSets, TLC

\* ------------------------------------------------------------------ bounds
\* largest number of parts of a form
MaxParts == 2
\* largest number of content bytes of one part
MaxContent == 2
\* largest small caller buffer (the buffers are 1..MaxBuf and one MiB)
MaxBuf == 3

\* reads counted after end-of-data
MaxAfter == 2

\* largest source of a writer call, in bytes
MaxLen == 3
\* largest low word of a permit
MaxPermit == 2
\* check_write calls of one writer call that allow no byte
MaxStall == 2

\* largest number of parts of a form read with empty buffers too
MaxZeroParts == 1

\* largest number of parts of a form read under fairness
MaxLiveParts == 1

\* blocking reads of one incoming body
MaxReads == 3
\* largest chunk of an incoming body, in bytes
MaxChunk == 2

MiB == 1024 * 1024

\* Default chunk size for streaming writes (64KB)
STREAM_CHUNK_SIZE == 65536

Min(a, b) == IF a <= b THEN a ELSE b

\* ------------------------------------------------------- wire constants
BOUNDARY_EXT == <<"-", "-">>

CRLF == <<"\r", "\n">>

CRLF_CRLF == <<"\r", "\n", "\r", "\n">>

CONTENT_DISPOSITION ==
  <<"c","o","n","t","e","n","t","-","d","i","s","p","o","s","i","t","i","o","n">>

CONTENT_TYPE == <<"c","o","n","t","e","n","t","-","t","y","p","e">>

\* "--FormBoundary" followed by the random suffix
BoundaryOf(suffix) ==
  <<"-","-","F","o","r","m","B","o","u","n","d","a","r","y">> \o suffix

\* generate_random_string(10): ten characters drawn from [A-Za-z0-9]
RandomStrings == { <<"A","b","0","C","d","1","E","f","2","G">> }

\* ------------------------------------------------------------ the parts
\* byte i of a part's content; neighbouring bytes differ
ContentByte(i) == <<"x", "y", "z", "w">>[((i - 1) % 4) + 1]

ContentOf(n) == [i \in 1..n |-> ContentByte(i)]

\* key, filename, mime and extra headers a part is built with: a text field,
\* a file with a name and a media type, a field with one extra header
Metas ==
  << [key |-> <<"a">>, filename |-> <<>>, mime |-> <<>>, headers |-> <<>>],
     [key |-> <<"b">>, filename |-> << <<"f">> >>, mime |-> << <<"t","/","p">> >>,
      headers |-> <<>>],
     [key |-> <<"c","d">>, filename |-> <<>>, mime |-> <<>>,
      headers |-> << <<<<"h">>, <<"v">>>> >>] >>

\* StreamingPart::text (Bytes) and StreamingPart::from_reader (Reader),
\* followed by the builders filename, mime and headers
StreamingPart(m, kind, n) ==
  [key |-> m.key, filename |-> m.filename, mime |-> m.mime,
   headers |-> m.headers, content |-> [kind |-> kind, data |-> ContentOf(n)]]

\* StreamingForm: text, part and file push to the back of parts. The forms
\* of n parts take their keys and headers from Metas in turn (a form of one
\* part starts at the third, of two at the first, of three at the second),
\* with every choice of content
FormsOfLen(n) ==
  { [i \in 1..n |-> StreamingPart(Metas[((n + i) % Len(Metas)) + 1],
                                   kinds[i], lens[i])] :
      kinds \in [1..n -> {"Bytes", "Reader"}],
      lens \in [1..n -> 0..MaxContent] }

StreamingForms == UNION { FormsOfLen(n) : n \in 0..MaxParts }

\* ------------------------------------------------------- header rendering
\* StreamingPart::build_header: the loop over self.headers.iter()
RECURSIVE header_lines(_)
header_lines(hs) ==
  IF hs = <<>> THEN <<>>
  ELSE CRLF \o Head(hs)[1] \o <<":", " ">> \o Head(hs)[2] \o header_lines(Tail(hs))

\* build_header with the quote after the filename left out
build_header_unquoted(part, bnd) ==
  BOUNDARY_EXT \o bnd \o CRLF \o CONTENT_DISPOSITION
    \o <<":"," ","f","o","r","m","-","d","a","t","a",";"," ","n","a","m","e","=">>
    \o part.key
    \o (IF part.filename # <<>>
          THEN <<";"," ","f","i","l","e","n","a","m","e","=","\"">>
                 \o part.filename[1]
          ELSE <<>>)
    \o (IF part.mime # <<>>
          THEN CRLF \o CONTENT_TYPE \o <<":", " ">> \o part.mime[1]
          ELSE <<>>)
    \o header_lines(part.headers)
    \o CRLF_CRLF

\* StreamingPart::build_header: everything before the content
build_header(part, bnd) ==
  BOUNDARY_EXT \o bnd \o CRLF \o CONTENT_DISPOSITION
    \o <<":"," ","f","o","r","m","-","d","a","t","a",";"," ","n","a","m","e","=">>
    \o part.key
    \o (IF part.filename # <<>>
          THEN <<";"," ","f","i","l","e","n","a","m","e","=","\"">>
                 \o part.filename[1] \o <<"\"">>
          ELSE <<>>)
    \o (IF part.mime # <<>>
          THEN CRLF \o CONTENT_TYPE \o <<":", " ">> \o part.mime[1]
          ELSE <<>>)
    \o header_lines(part.headers)
    \o CRLF_CRLF

\* the closing delimiter with a line end after it
final_boundary_crlf(bnd) == BOUNDARY_EXT \o bnd \o BOUNDARY_EXT \o CRLF

\* the closing delimiter: "{}{}{}" of BOUNDARY_EXT, boundary, BOUNDARY_EXT
final_boundary(bnd) == BOUNDARY_EXT \o bnd \o BOUNDARY_EXT

\* ------------------------------------------------------------ Form::build
\* Form::build: the loop over part.headers.iter()
RECURSIVE FormHeaders(_)
FormHeaders(hs) ==
  IF hs = <<>> THEN <<>>
  ELSE (CRLF \o Head(hs)[1] \o <<":", " ">>) \o Head(hs)[2] \o FormHeaders(Tail(hs))

\* Form::build: what one iteration of "for part in self.parts" appends
FormPart(part, bnd) ==
  (BOUNDARY_EXT \o bnd \o CRLF \o CONTENT_DISPOSITION
     \o <<":"," ","f","o","r","m","-","d","a","t","a",";"," ","n","a","m","e","=">>
     \o part.key)
    \o (IF part.filename # <<>>
          THEN <<";"," ","f","i","l","e","n","a","m","e","=","\"">>
                 \o part.filename[1] \o <<"\"">>
          ELSE <<>>)
    \o (IF part.mime # <<>>
          THEN CRLF \o CONTENT_TYPE \o <<":", " ">> \o part.mime[1]
          ELSE <<>>)
    \o FormHeaders(part.headers)
    \o CRLF_CRLF
    \o part.value
    \o CRLF

\* Form::build: the parts in order, then the closing delimiter
RECURSIVE FormParts(_, _)
FormParts(ps, bnd) ==
  IF ps = <<>> THEN <<>>
  ELSE FormPart(Head(ps), bnd) \o FormParts(Tail(ps), bnd)

FormBuild(ps, bnd) == FormParts(ps, bnd) \o (BOUNDARY_EXT \o bnd \o BOUNDARY_EXT)

\* ------------------------------------------------- StreamingFormReader
VARIABLES
  parts,            \* VecDeque<StreamingPart>: the parts not yet popped
  boundary,         \* the form's boundary
  state,            \* StreamingFormReaderState
  pending_bytes,    \* fragment not yet fully copied to a caller buffer
  pending_offset,   \* how much of pending_bytes was copied
  form,             \* history: the parts the form was built with
  out,              \* history: the bytes the reads returned, in order
  eof,              \* history: a read with a non-empty buffer returned 0
  after,            \* history: the reads made after eof, up to MaxAfter
  failed            \* history: a read returned Err

rvars == <<parts, boundary, state, pending_bytes, pending_offset,
           form, out, eof, after, failed>>

\* the outgoing body writers.
\* A source byte is named by its position in the source (1, 2, ...), so a
\* slice of the source is [from, len]: the bytes from + 1 .. from + len.
\* A permit is the u64 that check_write returns, as its two 32-bit words.
VARIABLES
  wfn,       \* the writer called: "write_to_outgoing_body", "stream_to_outgoing_body"
  pc,        \* where the call is
  srclen,    \* the length of the caller's buf, or of what the producer holds
  buf,       \* the slice still to write: buf (write_to), chunk (stream_to)
  pulled,    \* stream_to: how many bytes the producer has handed out
  permit,    \* what the last check_write returned
  result,    \* "none" while the call runs, then "Ok" or "Err"
  log,       \* history: the calls made on the sink and on the producer, in order
  stalls     \* history: the check_write calls that allowed no byte, up to MaxStall

wvars == <<wfn, pc, srclen, buf, pulled, permit, result, log, stalls>>

\* a Body::Stream over an IncomingBodyStream.
\* A byte of the incoming body is named by its position in the body.
VARIABLES
  bpc,       \* "none", "live", "bytes" (inside Body::bytes), "dropping", "gone"
  fields,    \* the fields the IncomingBodyStream still owns, in drop order
  acc,       \* Body::bytes: the Vec it appends to
  bresult,   \* what Body::bytes returned
  reads,     \* history: what each blocking_read gave, and to which caller
  chunks,    \* history: what InputStream::chunk returned for each of them
  released   \* history: the handles released, in order

bvars == <<bpc, fields, acc, bresult, reads, chunks, released>>

vars == <<rvars, wvars, bvars>>

\* the reader's fields as one value
Reader == [parts |-> parts, state |-> state,
           pending_bytes |-> pending_bytes, pending_offset |-> pending_offset]

\* caller buffer lengths: smaller than a CRLF, small, and larger than any body
BufSizes == (1..MaxBuf) \cup {MiB}

\* drain_pending that copies from the start of pending_bytes on every call
drain_pending_restart(r, n) ==
  IF r.pending_offset >= Len(r.pending_bytes)
    THEN [r |-> r, data |-> <<>>]
    ELSE
      LET remaining == SubSeq(r.pending_bytes, 1, Len(r.pending_bytes) - r.pending_offset)
          to_copy == Min(Len(remaining), n)
          off == r.pending_offset + to_copy
      IN  [r |-> IF off >= Len(r.pending_bytes)
                   THEN [r EXCEPT !.pending_bytes = <<>>, !.pending_offset = 0]
                   ELSE [r EXCEPT !.pending_offset = off],
           data |-> SubSeq(remaining, 1, to_copy)]

\* drain_pending that leaves a fully copied fragment in place
drain_pending_keeps(r, n) ==
  IF r.pending_offset >= Len(r.pending_bytes)
    THEN [r |-> r, data |-> <<>>]
    ELSE
      LET remaining == SubSeq(r.pending_bytes, r.pending_offset + 1, Len(r.pending_bytes))
          to_copy == Min(Len(remaining), n)
          off == r.pending_offset + to_copy
      IN  [r |-> [r EXCEPT !.pending_offset = off],
           data |-> SubSeq(remaining, 1, to_copy)]

\* drain_pending: the reader afterwards and the bytes copied to buf
drain_pending(r, n) ==
  IF r.pending_offset >= Len(r.pending_bytes)
    THEN [r |-> r, data |-> <<>>]
    ELSE
      LET remaining == SubSeq(r.pending_bytes, r.pending_offset + 1, Len(r.pending_bytes))
          to_copy == Min(Len(remaining), n)
          off == r.pending_offset + to_copy
      IN  [r |-> IF off >= Len(r.pending_bytes)
                   THEN [r EXCEPT !.pending_bytes = <<>>, !.pending_offset = 0]
                   ELSE [r EXCEPT !.pending_offset = off],
           data |-> SubSeq(remaining, 1, to_copy)]

set_pending(r, bytes) == [r EXCEPT !.pending_bytes = bytes, !.pending_offset = 0]

\* a producer's read into a buffer of n bytes: at most n bytes and at most what
\* is left, possibly fewer (k is the producer's choice), 0 only at its end
ProducerRead(data, n, k) == Min(Min(k, n), Len(data))

\* what one iteration of the dispatch loop ends with: "return Ok(n)" with
\* the n bytes put in buf, or the next iteration
Return(r, data) == [returns |-> TRUE, r |-> r, data |-> data]

Continue(r) == [returns |-> FALSE, r |-> r, data |-> <<>>]

\* PartHeader that returns 0 bytes when it finds the queue empty
PartHeaderReturnsAtEnd(r, bnd, n) ==
  IF r.parts # <<>>
    THEN LET header == build_header(Head(r.parts), bnd)
             d == drain_pending(
                    [set_pending(r, header) EXCEPT !.state = "PartContent"], n)
         IN  Return(d.r, d.data)
    ELSE Return([r EXCEPT !.state = "Finished"], <<>>)

\* read, state PartHeader
PartHeader(r, bnd, n) ==
  IF r.parts # <<>>
    THEN LET header == build_header(Head(r.parts), bnd)
             d == drain_pending(
                    [set_pending(r, header) EXCEPT !.state = "PartContent"], n)
         IN  Return(d.r, d.data)
    ELSE Continue([r EXCEPT !.state = "Finished"])

\* read, state PartContent, content Bytes
ContentBytes(r, n) ==
  LET bytes == Head(r.parts).content.data
  IN  IF bytes = <<>>
        THEN Continue([r EXCEPT !.state = "PartTrailer"])
        ELSE LET to_copy == Min(Len(bytes), n)
                 rest == SubSeq(bytes, to_copy + 1, Len(bytes))
                 r1 == [r EXCEPT !.parts[1].content.data = rest]
             IN  Return(IF rest = <<>> THEN [r1 EXCEPT !.state = "PartTrailer"] ELSE r1,
                        SubSeq(bytes, 1, to_copy))

\* ContentReader that returns the producer's 0 to the caller
ContentReaderZero(r, n, k) ==
  LET data == Head(r.parts).content.data
      got == ProducerRead(data, n, k)
      r1 == [r EXCEPT !.parts[1].content.data = SubSeq(data, got + 1, Len(data))]
  IN  IF got = 0
        THEN Return([r1 EXCEPT !.state = "PartTrailer"], <<>>)
        ELSE Return(r1, SubSeq(data, 1, got))

\* read, state PartContent, content Reader; k is the producer's choice
ContentReader(r, n, k) ==
  LET data == Head(r.parts).content.data
      got == ProducerRead(data, n, k)
      r1 == [r EXCEPT !.parts[1].content.data = SubSeq(data, got + 1, Len(data))]
  IN  IF got = 0
        THEN Continue([r1 EXCEPT !.state = "PartTrailer"])
        ELSE Return(r1, SubSeq(data, 1, got))

\* read, state PartContent
PartContent(r, n, k) ==
  IF r.parts # <<>>
    THEN IF Head(r.parts).content.kind = "Bytes"
           THEN ContentBytes(r, n)
           ELSE ContentReader(r, n, k)
    ELSE Continue([r EXCEPT !.state = "Finished"])

\* PartTrailer that pops the back of the queue
PartTrailerPopBack(r, n) ==
  LET d == drain_pending(
             [set_pending([r EXCEPT !.parts = SubSeq(r.parts, 1, Len(r.parts) - 1)], CRLF)
                EXCEPT !.state = "PartHeader"], n)
  IN  Return(d.r, d.data)

\* PartTrailer that goes on to the next part's content
PartTrailerToContent(r, n) ==
  LET d == drain_pending(
             [set_pending([r EXCEPT !.parts = Tail(r.parts)], CRLF)
                EXCEPT !.state = "PartContent"], n)
  IN  Return(d.r, d.data)

\* PartTrailer that leaves the part in the queue
PartTrailerKeepsPart(r, n) ==
  LET d == drain_pending(
             [set_pending(r, CRLF) EXCEPT !.state = "PartHeader"], n)
  IN  Return(d.r, d.data)

\* read, state PartTrailer
PartTrailer(r, n) ==
  LET d == drain_pending(
             [set_pending([r EXCEPT !.parts = Tail(r.parts)], CRLF)
                EXCEPT !.state = "PartHeader"], n)
  IN  Return(d.r, d.data)

\* Finished that returns 0 bytes and stays
FinishedReturnsZero(r, bnd, n) == Return(r, <<>>)

\* read, state Finished
Finished(r, bnd, n) ==
  LET d == drain_pending(
             [set_pending(r, final_boundary(bnd)) EXCEPT !.state = "Done"], n)
  IN  Return(d.r, d.data)

\* Done that starts over
DoneRestart(r) == Return([r EXCEPT !.state = "PartHeader"], <<>>)

\* Done that hands out dashes
DoneRepeatsDelimiter(r) == Return(r, BOUNDARY_EXT)

\* read, state Done
Done(r) == Return(r, <<>>)

\* the dispatch loop of read
RECURSIVE Dispatch(_, _, _, _)
Dispatch(r, bnd, n, k) ==
  LET arm == CASE r.state = "PartHeader" -> PartHeader(r, bnd, n)
               [] r.state = "PartContent" -> PartContent(r, n, k)
               [] r.state = "PartTrailer" -> PartTrailer(r, n)
               [] r.state = "Finished" -> Finished(r, bnd, n)
               [] r.state = "Done" -> Done(r)
  IN  IF arm.returns THEN arm ELSE Dispatch(arm.r, bnd, n, k)

\* <StreamingFormReader as Read>::read with a buffer of n bytes
ReadCall(r, bnd, n, k) ==
  LET d == drain_pending(r, n)
  IN  IF Len(d.data) > 0 THEN Return(d.r, d.data) ELSE Dispatch(r, bnd, n, k)

\* StreamingFormReader::new
NewReader(ps) ==
  [parts |-> ps, state |-> "PartHeader", pending_bytes |-> <<>>, pending_offset |-> 0]

\* StreamingForm::into_reader of a form built with new, text, part and file
ReaderInit ==
  /\ form \in StreamingForms
  /\ boundary \in { BoundaryOf(s) : s \in RandomStrings }
  /\ parts = NewReader(form).parts
  /\ state = NewReader(form).state
  /\ pending_bytes = NewReader(form).pending_bytes
  /\ pending_offset = NewReader(form).pending_offset
  /\ out = <<>>
  /\ eof = FALSE
  /\ after = 0
  /\ failed = FALSE

\* one call of read; n is the caller buffer's length
DoRead(n, k) ==
  LET res == ReadCall(Reader, boundary, n, k)
  IN  /\ parts' = res.r.parts
      /\ state' = res.r.state
      /\ pending_bytes' = res.r.pending_bytes
      /\ pending_offset' = res.r.pending_offset
      /\ out' = out \o res.data
      /\ eof' = (eof \/ (n > 0 /\ Len(res.data) = 0))
      /\ after' = IF eof THEN Min(after + 1, MaxAfter) ELSE after
      /\ UNCHANGED <<boundary, form, failed>>
      /\ UNCHANGED <<wvars, bvars>>

\* what the front part's producer may return to a read of n bytes: the calls
\* that reach no producer have the one choice
ProducerChoices(r, n) ==
  IF /\ r.state = "PartContent"
     /\ r.pending_offset >= Len(r.pending_bytes)
     /\ r.parts # <<>>
     /\ Head(r.parts).content.kind = "Reader"
    THEN 1..Min(MaxBuf, Min(n, Len(Head(r.parts).content.data)))
           \cup {Min(n, Len(Head(r.parts).content.data))}
    ELSE {0}

\* a read with a non-empty caller buffer, up to the first that returns 0
Read ==
  /\ ~eof
  /\ \E n \in BufSizes : \E k \in ProducerChoices(Reader, n) : DoRead(n, k)

\* a read after end-of-data, with any buffer
ReadAfterEof == eof /\ \E n \in {0} \cup BufSizes : DoRead(n, 0)

\* the reader after a producer's failed read, were the failure taken for
\* the end of the content
ProducerFailsEndsPart(r) == [r EXCEPT !.state = "PartTrailer"]

\* the reader after "let n = reader.read(buf)?" returned the producer's error
ProducerFails(r) == r

\* a read with a non-empty buffer that reaches the front part's producer,
\* which fails: read returns Err
ReadFails ==
  /\ ~eof
  /\ state = "PartContent"
  /\ pending_offset >= Len(pending_bytes)
  /\ parts # <<>>
  /\ Head(parts).content.kind = "Reader"
  /\ LET r == ProducerFails(Reader)
     IN  /\ parts' = r.parts
         /\ state' = r.state
         /\ pending_bytes' = r.pending_bytes
         /\ pending_offset' = r.pending_offset
  /\ failed' = TRUE
  /\ UNCHANGED <<boundary, form, out, eof, after>>
  /\ UNCHANGED <<wvars, bvars>>

\* a read with an empty caller buffer before end-of-data; the part's producer,
\* asked to fill an empty buffer, returns 0
ReadZero == ~eof /\ DoRead(0, 0)

\* ------------------------------------------- the outgoing body writers
\* an entry of the log
Ev(op, ok, from, len) == [op |-> op, ok |-> ok, from |-> from, len |-> len]

NoPermit == [hi |-> 0, lo |-> 0]

\* the permits check_write may return: 0, some small ones, and for each the
\* same plus 2^32
Permits == [hi : {0, 1}, lo : 0..MaxPermit]

\* "permit as usize": the low 32 bits
AsUsize(p) == p.lo

\* n <= permit, n below 2^32
Within(n, p) == p.hi > 0 \/ n <= p.lo

\* a failed flush is dropped and the call goes on
FailFlushIgnored(op) ==
  /\ log' = Append(log, Ev(op, FALSE, 0, 0))
  /\ result' = IF op = "flush" THEN result ELSE "Err"
  /\ pc' = IF op = "flush" THEN "final_block" ELSE "returned"
  /\ UNCHANGED <<wfn, srclen, buf, pulled, permit, stalls>>

\* the call returns Err
Fail(op) ==
  /\ log' = Append(log, Ev(op, FALSE, 0, 0))
  /\ result' = "Err"
  /\ pc' = "returned"
  /\ UNCHANGED <<wfn, srclen, buf, pulled, permit, stalls>>

\* write_to_outgoing_body without the test of an empty buf
CallWriteToAlwaysOpens(n) ==
  /\ pc = "idle"
  /\ UNCHANGED <<rvars, bvars>>
  /\ wfn' = "write_to_outgoing_body"
  /\ srclen' = n
  /\ buf' = [from |-> 0, len |-> n]
  /\ pc' = "open"
  /\ UNCHANGED <<pulled, permit, result, log, stalls>>

\* write_to_outgoing_body(outgoing_body, buf): the test of an empty buf
CallWriteTo(n) ==
  /\ pc = "idle"
  /\ UNCHANGED <<rvars, bvars>>
  /\ wfn' = "write_to_outgoing_body"
  /\ srclen' = n
  /\ buf' = [from |-> 0, len |-> n]
  /\ IF n = 0
       THEN result' = "Ok" /\ pc' = "returned"
       ELSE result' = result /\ pc' = "open"
  /\ UNCHANGED <<pulled, permit, log, stalls>>

\* stream_to_outgoing_body(outgoing_body, reader); the reader holds n bytes
CallStreamTo(n) ==
  /\ pc = "idle"
  /\ UNCHANGED <<rvars, bvars>>
  /\ wfn' = "stream_to_outgoing_body"
  /\ srclen' = n
  /\ buf' = [from |-> 0, len |-> 0]
  /\ pc' = "open"
  /\ UNCHANGED <<pulled, permit, result, log, stalls>>

\* outgoing_body.write()
OpenWrite ==
  /\ pc = "open"
  /\ UNCHANGED <<rvars, bvars>>
  /\ \/ /\ log' = Append(log, Ev("open", TRUE, 0, 0))
        /\ pc' = "subscribe"
        /\ UNCHANGED <<wfn, srclen, buf, pulled, permit, result, stalls>>
     \/ Fail("open")

\* out.subscribe(), then the first test of the loop
Subscribe ==
  /\ pc = "subscribe"
  /\ UNCHANGED <<rvars, bvars>>
  /\ log' = Append(log, Ev("subscribe", TRUE, 0, 0))
  /\ pc' = IF wfn = "stream_to_outgoing_body" THEN "read"
           ELSE IF buf.len > 0 THEN "block" ELSE "flush"
  /\ UNCHANGED <<wfn, srclen, buf, pulled, permit, result, stalls>>

\* stream_to: reader.read(&mut buf) with buf of STREAM_CHUNK_SIZE bytes
PullChunk ==
  /\ pc = "read"
  /\ UNCHANGED <<rvars, bvars>>
  /\ \/ \E got \in 0..Min(STREAM_CHUNK_SIZE, srclen - pulled) :
          /\ got = 0 => pulled = srclen
          /\ log' = Append(log, Ev("read", TRUE, pulled, got))
          /\ buf' = [from |-> pulled, len |-> got]
          /\ pulled' = pulled + got
          /\ pc' = IF got = 0 THEN "flush" ELSE "block"
          /\ UNCHANGED <<wfn, srclen, permit, result, stalls>>
     \/ Fail("read")

\* pollable.block() in the loop
Block ==
  /\ pc = "block"
  /\ UNCHANGED <<rvars, bvars>>
  /\ log' = Append(log, Ev("block", TRUE, 0, 0))
  /\ pc' = "check_write"
  /\ UNCHANGED <<wfn, srclen, buf, pulled, permit, result, stalls>>

\* out.check_write()? in the loop
CheckWrite ==
  /\ pc = "check_write"
  /\ UNCHANGED <<rvars, bvars>>
  /\ \/ \E p \in Permits :
          /\ AsUsize(p) = 0 => stalls < MaxStall
          /\ stalls' = IF AsUsize(p) = 0 THEN stalls + 1 ELSE stalls
          /\ permit' = p
          /\ log' = Append(log, Ev("check_write", TRUE, 0, 0))
          /\ pc' = "write"
          /\ UNCHANGED <<wfn, srclen, buf, pulled, result>>
     \/ Fail("check_write")

\* WriteChunk that keeps buf where it was and only shortens it
WriteChunkNoAdvance ==
  /\ pc = "write"
  /\ UNCHANGED <<rvars, bvars>>
  /\ LET len == Min(buf.len, AsUsize(permit))
         rest == [from |-> buf.from, len |-> buf.len - len]
     IN  \/ /\ log' = Append(log, Ev("write", TRUE, buf.from, len))
            /\ buf' = rest
            /\ pc' = IF rest.len > 0 THEN "block"
                     ELSE IF wfn = "stream_to_outgoing_body" THEN "read"
                     ELSE "flush"
            /\ UNCHANGED <<wfn, srclen, pulled, permit, result, stalls>>
         \/ /\ log' = Append(log, Ev("write", FALSE, buf.from, len))
            /\ buf' = rest
            /\ result' = "Err"
            /\ pc' = "returned"
            /\ UNCHANGED <<wfn, srclen, pulled, permit, stalls>>

\* WriteChunk that writes all of buf whatever the permit
WriteChunkAll ==
  /\ pc = "write"
  /\ UNCHANGED <<rvars, bvars>>
  /\ LET len == buf.len
         rest == [from |-> buf.from + len, len |-> buf.len - len]
     IN  \/ /\ log' = Append(log, Ev("write", TRUE, buf.from, len))
            /\ buf' = rest
            /\ pc' = IF rest.len > 0 THEN "block"
                     ELSE IF wfn = "stream_to_outgoing_body" THEN "read"
                     ELSE "flush"
            /\ UNCHANGED <<wfn, srclen, pulled, permit, result, stalls>>
         \/ /\ log' = Append(log, Ev("write", FALSE, buf.from, len))
            /\ buf' = rest
            /\ result' = "Err"
            /\ pc' = "returned"
            /\ UNCHANGED <<wfn, srclen, pulled, permit, stalls>>

\* len = min(buf.len(), permit as usize), split_at(len), out.write(chunk)?,
\* then the test of the loop
WriteChunk ==
  /\ pc = "write"
  /\ UNCHANGED <<rvars, bvars>>
  /\ LET len == Min(buf.len, AsUsize(permit))
         rest == [from |-> buf.from + len, len |-> buf.len - len]
     IN  \/ /\ log' = Append(log, Ev("write", TRUE, buf.from, len))
            /\ buf' = rest
            /\ pc' = IF rest.len > 0 THEN "block"
                     ELSE IF wfn = "stream_to_outgoing_body" THEN "read"
                     ELSE "flush"
            /\ UNCHANGED <<wfn, srclen, pulled, permit, result, stalls>>
         \/ /\ log' = Append(log, Ev("write", FALSE, buf.from, len))
            /\ buf' = rest
            /\ result' = "Err"
            /\ pc' = "returned"
            /\ UNCHANGED <<wfn, srclen, pulled, permit, stalls>>

\* out.flush()?
Flush ==
  /\ pc = "flush"
  /\ UNCHANGED <<rvars, bvars>>
  /\ \/ /\ log' = Append(log, Ev("flush", TRUE, 0, 0))
        /\ pc' = "final_block"
        /\ UNCHANGED <<wfn, srclen, buf, pulled, permit, result, stalls>>
     \/ Fail("flush")

\* FinalBlock that does not wait for the flush
FinalBlockSkipped ==
  /\ pc = "final_block"
  /\ UNCHANGED <<rvars, bvars>>
  /\ pc' = "final_check"
  /\ UNCHANGED <<wfn, srclen, buf, pulled, permit, result, log, stalls>>

\* pollable.block() after the flush
FinalBlock ==
  /\ pc = "final_block"
  /\ UNCHANGED <<rvars, bvars>>
  /\ log' = Append(log, Ev("block", TRUE, 0, 0))
  /\ pc' = "final_check"
  /\ UNCHANGED <<wfn, srclen, buf, pulled, permit, result, stalls>>

\* let _ = out.check_write()?; Ok(()): the permit is dropped
FinalCheck ==
  /\ pc = "final_check"
  /\ UNCHANGED <<rvars, bvars>>
  /\ \/ /\ log' = Append(log, Ev("check_write", TRUE, 0, 0))
        /\ result' = "Ok"
        /\ pc' = "returned"
        /\ UNCHANGED <<wfn, srclen, buf, pulled, permit, stalls>>
     \/ Fail("check_write")

\* no writer was called
WriterIdle ==
  /\ wfn = "none"
  /\ pc = "idle"
  /\ srclen = 0
  /\ buf = [from |-> 0, len |-> 0]
  /\ pulled = 0
  /\ permit = NoPermit
  /\ result = "none"
  /\ log = <<>>
  /\ stalls = 0

\* ------------------------------------------------- the incoming body
\* struct IncomingBodyStream: its fields in declaration order, which is the
\* order Rust drops them in
IncomingBodyStreamSwapped == <<"_incoming_body", "input_stream">>

IncomingBodyStream == <<"input_stream", "_incoming_body">>

\* the bytes the incoming body has delivered so far
RECURSIVE Delivered(_)
Delivered(rs) ==
  IF rs = <<>> THEN 0 ELSE Len(rs[Len(rs)].data) + Delivered(SubSeq(rs, 1, Len(rs) - 1))

\* what blocking_read(len) may give: the next 0..len bytes of the body,
\* StreamError::Closed, or another StreamError
Outcomes(len) ==
  { [kind |-> "data", data |-> [i \in 1..m |-> Delivered(reads) + i]] :
      m \in 0..(IF Len(reads) < MaxReads THEN Min(len, MaxChunk) ELSE -1) }
    \cup { [kind |-> "Closed", data |-> <<>>],
           [kind |-> "LastOperationFailed", data |-> <<>>] }

\* InputStream::chunk that takes StreamError::Closed for a failure
chunk_closed_fails(o) ==
  IF o.kind = "data" THEN [kind |-> "Some", data |-> o.data]
  ELSE [kind |-> "Err", data |-> <<>>]

\* InputStream::chunk(len), o being what blocking_read(len) gave
chunk(o) ==
  CASE o.kind = "data" -> [kind |-> "Some", data |-> o.data]
    [] o.kind = "Closed" -> [kind |-> "None", data |-> <<>>]
    [] OTHER -> [kind |-> "Err", data |-> <<>>]

\* an entry of reads
ReadBy(caller, o) == [by |-> caller, kind |-> o.kind, data |-> o.data]

\* IncomingBodyStream::from(body): body.stream().unwrap()
FromIncomingBody ==
  /\ bpc = "none"
  /\ UNCHANGED <<rvars, wvars>>
  /\ fields' = IncomingBodyStream
  /\ bpc' = "live"
  /\ UNCHANGED <<acc, bresult, reads, chunks, released>>

\* Body::chunk(&self, len) on Body::Stream
BodyChunk ==
  /\ bpc = "live"
  /\ Len(reads) < MaxReads
  /\ UNCHANGED <<rvars, wvars>>
  /\ \E len \in (1..MaxChunk) \cup {MiB} : \E o \in Outcomes(len) :
        /\ reads' = Append(reads, ReadBy("chunk", o))
        /\ chunks' = Append(chunks, chunk(o))
  /\ UNCHANGED <<bpc, fields, acc, bresult, released>>

\* Body::bytes(self) on Body::Stream: let mut body = Vec::new()
BytesCall ==
  /\ bpc = "live"
  /\ UNCHANGED <<rvars, wvars>>
  /\ acc' = <<>>
  /\ bpc' = "bytes"
  /\ UNCHANGED <<fields, bresult, reads, chunks, released>>

\* BytesRead that stops at an empty chunk as at a close
BytesReadStopsOnEmpty ==
  /\ bpc = "bytes"
  /\ UNCHANGED <<rvars, wvars>>
  /\ \E o \in Outcomes(MiB) :
        LET c == chunk(o)
        IN  /\ reads' = Append(reads, ReadBy("bytes", o))
            /\ chunks' = Append(chunks, c)
            /\ CASE c.kind = "Some" /\ c.data # <<>> ->
                      acc' = acc \o c.data /\ UNCHANGED <<bpc, bresult>>
                 [] c.kind = "None" \/ (c.kind = "Some" /\ c.data = <<>>) ->
                      /\ bresult' = [kind |-> "Ok", data |-> acc]
                      /\ bpc' = "dropping"
                      /\ acc' = acc
                 [] OTHER ->
                      /\ bresult' = [kind |-> "Err", data |-> <<>>]
                      /\ bpc' = "dropping"
                      /\ acc' = acc
  /\ UNCHANGED <<fields, released>>

\* one turn of "while let Some(mut chunk) = s.input_stream.chunk(1024 * 1024)?",
\* and Ok(body) after the loop
BytesRead ==
  /\ bpc = "bytes"
  /\ UNCHANGED <<rvars, wvars>>
  /\ \E o \in Outcomes(MiB) :
        LET c == chunk(o)
        IN  /\ reads' = Append(reads, ReadBy("bytes", o))
            /\ chunks' = Append(chunks, c)
            /\ CASE c.kind = "Some" ->
                      acc' = acc \o c.data /\ UNCHANGED <<bpc, bresult>>
                 [] c.kind = "None" ->
                      /\ bresult' = [kind |-> "Ok", data |-> acc]
                      /\ bpc' = "dropping"
                      /\ acc' = acc
                 [] OTHER ->
                      /\ bresult' = [kind |-> "Err", data |-> <<>>]
                      /\ bpc' = "dropping"
                      /\ acc' = acc
  /\ UNCHANGED <<fields, released>>

\* the Body goes out of scope without bytes having been called
DropUnread ==
  /\ bpc = "live"
  /\ UNCHANGED <<rvars, wvars>>
  /\ bpc' = "dropping"
  /\ UNCHANGED <<fields, acc, bresult, reads, chunks, released>>

\* the drop of the IncomingBodyStream, a field at a time
DropField ==
  /\ bpc = "dropping"
  /\ UNCHANGED <<rvars, wvars>>
  /\ released' = Append(released, Head(fields))
  /\ fields' = Tail(fields)
  /\ bpc' = IF Tail(fields) = <<>> THEN "gone" ELSE "dropping"
  /\ UNCHANGED <<acc, bresult, reads, chunks>>

\* no Body was made
BodyIdle ==
  /\ bpc = "none"
  /\ fields = <<>>
  /\ acc = <<>>
  /\ bresult = [kind |-> "none", data |-> <<>>]
  /\ reads = <<>>
  /\ chunks = <<>>
  /\ released = <<>>

Init == ReaderInit /\ WriterIdle /\ BodyIdle

Next == Read \/ ReadAfterEof

Spec == Init /\ [][Next]_vars

\* the reader with a caller that keeps calling read with non-empty buffers
\* until a read returns 0
LiveInit == Init /\ Len(form) <= MaxLiveParts

LiveSpec == LiveInit /\ [][Next]_vars /\ WF_vars(Read)

\* the reader over producers that may fail
FailNext == Read \/ ReadAfterEof \/ ReadFails

FailSpec == Init /\ [][FailNext]_vars

\* the reader, called with empty buffers too
ZeroNext == Read \/ ReadAfterEof \/ ReadZero

\* forms of at most MaxZeroParts parts
ZeroInit == Init /\ Len(form) <= MaxZeroParts

ZeroSpec == ZeroInit /\ [][ZeroNext]_vars

\* the writers, with a reader of an empty form standing by
WriterInit ==
  /\ WriterIdle
  /\ ReaderInit
  /\ form = <<>>
  /\ BodyIdle

WriterNext ==
  \/ \E n \in 0..MaxLen : CallWriteTo(n)
  \/ \E n \in 0..MaxLen : CallStreamTo(n)
  \/ OpenWrite
  \/ Subscribe
  \/ PullChunk
  \/ Block
  \/ CheckWrite
  \/ WriteChunk
  \/ Flush
  \/ FinalBlock
  \/ FinalCheck

WriterSpec == WriterInit /\ [][WriterNext]_vars

\* a Body::Stream, with a reader of an empty form and no writer standing by
BodyInit == WriterInit

BodyNext ==
  \/ FromIncomingBody
  \/ BodyChunk
  \/ BytesCall
  \/ BytesRead
  \/ DropUnread
  \/ DropField

BodySpec == BodyInit /\ [][BodyNext]_vars

\* ------------------------------------------------------------- properties
IsPrefix(a, b) == Len(a) <= Len(b) /\ a = SubSeq(b, 1, Len(a))

\* the Part with the fields of a StreamingPart and its content as value
PartOf(sp) ==
  [key |-> sp.key, value |-> sp.content.data, filename |-> sp.filename,
   mime |-> sp.mime, headers |-> sp.headers]

EagerForm == [i \in DOMAIN form |-> PartOf(form[i])]

\* the bytes of reads with buffers of n bytes until one returns 0
RECURSIVE Drain(_, _, _)
Drain(r, bnd, n) ==
  LET res == ReadCall(r, bnd, n, n)
  IN  IF res.data = <<>> THEN <<>> ELSE res.data \o Drain(res.r, bnd, n)

\* the parts in the order given, each as header, content, CRLF
RECURSIVE Blocks(_, _)
Blocks(ps, bnd) ==
  IF ps = <<>> THEN <<>>
  ELSE build_header(Head(ps), bnd) \o Head(ps).content.data \o CRLF
         \o Blocks(Tail(ps), bnd)

WholeBody == Blocks(form, boundary) \o final_boundary(boundary)

\* the keys after each " name=" of a body, left to right
RECURSIVE KeyAt(_, _)
KeyAt(b, i) ==
  IF i > Len(b) \/ b[i] \in {";", "\r"} THEN <<>> ELSE <<b[i]>> \o KeyAt(b, i + 1)

\* the places of b where " name=" starts
NamePlaces(b) ==
  { i \in 1..(Len(b) - 5) :
      /\ b[i] = " " /\ b[i + 1] = "n" /\ b[i + 2] = "a"
      /\ b[i + 3] = "m" /\ b[i + 4] = "e" /\ b[i + 5] = "=" }

ScanKeys(b) ==
  LET at == NamePlaces(b)
      nth(j) == CHOOSE i \in at : Cardinality({ h \in at : h < i }) = j - 1
  IN  [j \in 1..Cardinality(at) |-> KeyAt(b, nth(j) + 6)]

KeysOf(ps) == [i \in DOMAIN ps |-> ps[i].key]

\* C1: the bytes of the reads with non-empty buffers up to the first read
\* that returns 0 are the bytes Form::build gives for the same parts and
\* boundary, for Bytes and Reader contents alike
StreamEqualsBuild == eof => out = FormBuild(EagerForm, boundary)

StreamEqualsBuildWitness ==
  /\ eof
  /\ Len(form) = 2
  /\ form[1].content.kind = "Reader" /\ Len(form[1].content.data) = 2
  /\ form[2].content.kind = "Bytes" /\ Len(form[2].content.data) = 1
  /\ form[2].filename # <<>> /\ form[2].mime # <<>>

\* C2: whatever the buffer sizes of the reads so far (one byte, small, one
\* MiB, mixed), the bytes they returned followed by the rest drained with
\* one-MiB buffers are the bytes of a drain with one-MiB buffers from the
\* start: none skipped, none twice
ChunkSizeIndependent ==
  out \o Drain(Reader, boundary, MiB) = Drain(NewReader(form), boundary, MiB)

\* a fragment cut by a small buffer: a CRLF half delivered
ChunkSizeIndependentWitness ==
  /\ pending_bytes = CRLF /\ pending_offset = 1
  /\ Len(parts) = 1 /\ Len(form) = 2

\* C6: a read with a non-empty buffer of n bytes returns at most n bytes, and
\* returns 0 only after the whole body was returned by earlier reads
ReadReturnCount ==
  [][\A n \in BufSizes : \A k \in ProducerChoices(Reader, n) :
       DoRead(n, k) =>
         /\ Len(out') - Len(out) <= n
         /\ Len(out') = Len(out) => out = WholeBody]_vars

ReadReturnCountWitness ==
  /\ eof /\ after = 0 /\ out = WholeBody
  /\ Len(form) = 2 /\ form[2].content = [kind |-> "Reader", data |-> <<>>]

\* C7: after a read with a non-empty buffer returned 0, every read returns 0
\* and leaves the reader as it is
EofIsTerminal ==
  [][eof => /\ eof'
            /\ out' = out
            /\ UNCHANGED <<parts, state, pending_bytes, pending_offset>>]_vars

EofIsTerminalWitness == eof /\ after = MaxAfter /\ form # <<>>

\* C8: the parts leave in the order they were added: what was returned is a
\* prefix of block 1, block 2, ... (header, content, CRLF each), what is
\* still queued are the last parts added, the bytes returned lie between the
\* end of the block before the front part and the end of the front part's
\* block, and at the end both encoders gave exactly these blocks and the
\* closing delimiter, and show the keys in the order added
PartsInOrder ==
  LET popped == Len(form) - Len(parts)
      done(j) == Len(Blocks(SubSeq(form, 1, j), boundary))
  IN  /\ IsPrefix(out, WholeBody)
      /\ popped >= 0
      /\ KeysOf(parts) = SubSeq(KeysOf(form), popped + 1, Len(form))
      /\ Len(out) + (Len(pending_bytes) - pending_offset) >= done(popped)
      /\ parts # <<>> => Len(out) <= done(popped + 1)
      /\ eof => /\ out = WholeBody
                /\ FormBuild(EagerForm, boundary) = WholeBody
                /\ ScanKeys(out) = KeysOf(form)
                /\ ScanKeys(FormBuild(EagerForm, boundary)) = KeysOf(form)

PartsInOrderWitness ==
  /\ eof /\ Len(form) = 2
  /\ ScanKeys(out) = << <<"a">>, <<"b">> >>

\* C10: a form without parts gives two hyphens, the boundary, two hyphens
\* and nothing else
EmptyFormOutput ==
  form = <<>> =>
    /\ IsPrefix(out, <<"-", "-">> \o boundary \o <<"-", "-">>)
    /\ eof => out = <<"-", "-">> \o boundary \o <<"-", "-">>

EmptyFormOutputWitness == form = <<>> /\ eof /\ Len(out) = Len(boundary) + 4

\* the source of the writer call, byte by byte
Source == [i \in 1..srclen |-> i]

\* the bytes passed to the sink's write calls, in call order
RECURSIVE Sunk(_)
Sunk(l) ==
  IF l = <<>> THEN <<>>
  ELSE (IF Head(l).op = "write"
          THEN [j \in 1..Head(l).len |-> Head(l).from + j]
          ELSE <<>>) \o Sunk(Tail(l))

Last(l) == l[Len(l)]

\* C3: write_to_outgoing_body with a non-empty buffer: at every point the
\* slices written so far, joined in call order, are a prefix of the buffer,
\* and they are the whole buffer when the call returns Ok, whatever permits
\* check_write returned
WriteToDelivers ==
  (wfn = "write_to_outgoing_body" /\ srclen > 0) =>
    /\ IsPrefix(Sunk(log), Source)
    /\ result = "Ok" => Sunk(log) = Source

\* a run with permits of 0 and permits above 2^32 in it
WriteToDeliversWitness ==
  /\ wfn = "write_to_outgoing_body" /\ result = "Ok"
  /\ srclen = MaxLen /\ stalls = MaxStall
  /\ permit.hi = 1 /\ permit.lo = 1
  /\ Sunk(log) = Source

\* C4: every write of either writer comes right after a block and a
\* successful check_write, in that order, and passes no more bytes than that
\* check_write allowed
WritesUnderPermit ==
  [][\A i \in DOMAIN log' :
       log'[i].op = "write" =>
         /\ i >= 3
         /\ log'[i - 1].op = "check_write" /\ log'[i - 1].ok
         /\ log'[i - 2].op = "block"
         /\ (i = Len(log') /\ Len(log') > Len(log)) => Within(log'[i].len, permit)]_vars

WritesUnderPermitWitness ==
  /\ wfn = "stream_to_outgoing_body"
  /\ log # <<>> /\ Last(log).op = "write" /\ Last(log).len = MaxPermit
  /\ permit = [hi |-> 0, lo |-> MaxPermit]
  /\ buf.len > 0

\* a failed call is the last call made, and the writer has returned Err
FailureIsLast ==
  \A i \in DOMAIN log :
    ~log[i].ok => (i = Len(log) /\ result = "Err" /\ pc = "returned")

\* every byte was written, the flush and the final check_write succeeded
Completed ==
  /\ Sunk(log) = Source
  /\ Len(log) >= 3
  /\ log[Len(log) - 2].op = "flush" /\ log[Len(log) - 2].ok
  /\ log[Len(log) - 1].op = "block"
  /\ Last(log).op = "check_write" /\ Last(log).ok
  /\ \A i \in DOMAIN log : log[i].ok

\* C5 as stated: a failure ends the call with Err at once, and Ok is returned
\* only after every byte was written, a successful flush and a successful
\* final check_write
ErrorsAbortAlways ==
  /\ FailureIsLast
  /\ result = "Ok" => Completed

\* C5, amended: the same, except for write_to_outgoing_body with an empty
\* buffer, which returns Ok with no flush and no check_write
ErrorsAbort ==
  /\ FailureIsLast
  /\ (result = "Ok" /\ ~(wfn = "write_to_outgoing_body" /\ srclen = 0)) => Completed

\* a write that failed with bytes still to write
ErrorsAbortWitness ==
  /\ result = "Err" /\ wfn = "stream_to_outgoing_body"
  /\ Last(log).op = "write" /\ ~Last(log).ok
  /\ Sunk(log) # Source /\ Len(Sunk(log)) > 0

\* C9: write_to_outgoing_body with an empty buffer returns Ok and makes no
\* call on the outgoing body or the sink
EmptyWriteNoOp ==
  (wfn = "write_to_outgoing_body" /\ srclen = 0) =>
    (result = "Ok" /\ pc = "returned" /\ log = <<>>)

EmptyWriteNoOpWitness ==
  wfn = "write_to_outgoing_body" /\ srclen = 0 /\ pc = "returned"

\* -------------------------------------------------- the incoming body
\* the reads that Body::bytes made
BytesReads == SelectSeq(reads, LAMBDA r : r.by = "bytes")

\* the chunks of rs, one after the other
RECURSIVE Concat(_)
Concat(rs) == IF rs = <<>> THEN <<>> ELSE Head(rs).data \o Concat(Tail(rs))

\* C11: the input-stream handle (the child) is released before the
\* incoming-body handle (the parent) it was taken from, however the
\* IncomingBodyStream's life ends: Body::bytes returning Ok, Body::bytes
\* returning early on a failed read, or the Body dropped unread; and at the
\* end both are released, each once.
ChildReleasedFirst ==
  /\ \A i \in DOMAIN released :
        released[i] = "_incoming_body" =>
          \E j \in 1..(i - 1) : released[j] = "input_stream"
  /\ bpc = "gone" =>
        /\ Len(released) = 2
        /\ \E i, j \in DOMAIN released :
              released[i] = "input_stream" /\ released[j] = "_incoming_body"

\* Body::bytes has returned early on a failed read, after some chunks, and
\* both handles are released
ChildReleasedFirstWitness ==
  /\ bpc = "gone"
  /\ bresult.kind = "Err"
  /\ acc # <<>>
  /\ Len(released) = 2

\* C12: Body::bytes on a stream returns Ok with the chunks it was given, in
\* order, up to the first StreamError::Closed, an empty chunk not ending the
\* loop; a read that fails otherwise makes it return Err, with none of the
\* bytes gathered so far.
BytesConcatenates ==
  LET rs == BytesReads
      before == SubSeq(rs, 1, Len(rs) - 1)
  IN  /\ bresult.kind = "none" => \A i \in DOMAIN rs : rs[i].kind = "data"
      /\ bresult.kind # "none" =>
            /\ rs # <<>>
            /\ \A i \in DOMAIN before : before[i].kind = "data"
      /\ bresult.kind = "Ok" =>
            /\ rs[Len(rs)].kind = "Closed"
            /\ bresult.data = Concat(before)
            /\ Len(bresult.data) = Delivered(before)
      /\ bresult.kind = "Err" =>
            /\ rs[Len(rs)].kind = "LastOperationFailed"
            /\ bresult.data = <<>>

\* Body::bytes returned Ok after an empty chunk that bytes followed
BytesConcatenatesWitness ==
  /\ bresult.kind = "Ok"
  /\ \E i, j \in DOMAIN BytesReads :
        /\ i < j
        /\ BytesReads[i].kind = "data" /\ BytesReads[i].data = <<>>
        /\ BytesReads[j].kind = "data" /\ BytesReads[j].data # <<>>

\* C13: InputStream::chunk returns Ok(Some(chunk)) exactly when blocking_read
\* gave a chunk, and that chunk; Ok(None) exactly when it gave
\* StreamError::Closed; Err exactly when it gave another error.
ChunkMapsOutcomes ==
  /\ Len(chunks) = Len(reads)
  /\ \A i \in DOMAIN reads :
        /\ reads[i].kind = "data" <=> chunks[i].kind = "Some"
        /\ reads[i].kind = "Closed" <=> chunks[i].kind = "None"
        /\ reads[i].kind = "LastOperationFailed" <=> chunks[i].kind = "Err"
        /\ chunks[i].kind = "Some" => chunks[i].data = reads[i].data
        /\ chunks[i].kind \in {"Some", "None", "Err"}

\* Body::chunk has seen a chunk, a close and a failure
ChunkMapsOutcomesWitness ==
  \E i, j, k \in DOMAIN chunks :
    /\ reads[i].by = "chunk" /\ chunks[i].kind = "Some" /\ chunks[i].data # <<>>
    /\ reads[j].by = "chunk" /\ chunks[j].kind = "None"
    /\ reads[k].by = "chunk" /\ chunks[k].kind = "Err"

\* ------------------------------------------- the reader's state machine
\* the states one call of read passes through, from the state it starts in
RECURSIVE DispatchPath(_, _, _, _)
DispatchPath(r, bnd, n, k) ==
  LET arm == CASE r.state = "PartHeader" -> PartHeader(r, bnd, n)
               [] r.state = "PartContent" -> PartContent(r, n, k)
               [] r.state = "PartTrailer" -> PartTrailer(r, n)
               [] r.state = "Finished" -> Finished(r, bnd, n)
               [] r.state = "Done" -> Done(r)
  IN  IF arm.returns
        THEN IF arm.r.state = r.state THEN <<r.state>> ELSE <<r.state, arm.r.state>>
        ELSE <<r.state>> \o DispatchPath(arm.r, bnd, n, k)

ReadPath(r, bnd, n, k) ==
  IF Len(drain_pending(r, n).data) > 0 THEN <<r.state>> ELSE DispatchPath(r, bnd, n, k)

\* the state changes of a path
Edges(path) == { <<path[i], path[i + 1]>> : i \in 1..(Len(path) - 1) }

PerPart == {"PartHeader", "PartContent", "PartTrailer"}

\* the buffer lengths and producer choices a step may have been made with
Inputs == { <<n, k>> \in ({0} \cup BufSizes) \X ((0..MaxBuf) \cup {MiB}) :
              k \in ProducerChoices(Reader, n) }

\* C14: every change of the reader's state, those inside one call of read
\* too, is one of PartHeader -> PartContent, PartContent -> PartTrailer,
\* PartTrailer -> PartHeader, PartHeader -> Finished, PartContent -> Finished,
\* Finished -> Done; after Finished or Done no per-part state comes again,
\* and Done is never left.
StateChangesAllowed ==
  [][\A in \in Inputs :
       DoRead(in[1], in[2]) =>
         LET path == ReadPath(Reader, boundary, in[1], in[2])
         IN  /\ path[1] = state /\ path[Len(path)] = state'
             /\ Edges(path) \subseteq
                   { <<"PartHeader", "PartContent">>, <<"PartContent", "PartTrailer">>,
                     <<"PartTrailer", "PartHeader">>, <<"PartHeader", "Finished">>,
                     <<"PartContent", "Finished">>, <<"Finished", "Done">> }
             /\ \A i, j \in DOMAIN path :
                   i < j /\ path[i] \in {"Finished", "Done"} => path[j] \notin PerPart
             /\ state = "Done" => state' = "Done"]_vars

\* a form of two parts was read to its end, and read again
StateChangesAllowedWitness ==
  /\ Len(form) = 2
  /\ state = "Done"
  /\ parts = <<>>
  /\ after > 0

\* C15 as stated: in state Done every read returns 0 bytes
DoneReturnsZero == [][state = "Done" => out' = out]_vars

\* C15: in state Done with nothing pending every read returns 0 bytes and
\* the state stays Done, with any buffer and however often; while bytes of
\* the closing delimiter are pending in state Done, a read returns the next
\* of them.
DoneDrainedReturnsZero ==
  [][/\ state = "Done" /\ pending_offset >= Len(pending_bytes) =>
          out' = out /\ state' = "Done"
     /\ state = "Done" /\ pending_offset < Len(pending_bytes) =>
          /\ Len(out') > Len(out)
          /\ pending_bytes = final_boundary(boundary)
          /\ out' = out \o SubSeq(pending_bytes, pending_offset + 1,
                                   pending_offset + Len(out') - Len(out))]_vars

\* the closing delimiter went out in pieces, the last ones in state Done, and
\* reads followed
DoneDrainedReturnsZeroWitness ==
  /\ state = "Done"
  /\ pending_offset >= Len(pending_bytes)
  /\ after = MaxAfter
  /\ Len(form) = 1

\* the fragments set_pending is called with
Fragments ==
  { build_header(form[i], boundary) : i \in DOMAIN form }
    \cup {CRLF, final_boundary(boundary)}

\* pending_bytes is empty, or one fragment not yet fully copied
PendingIsFragment ==
  \/ pending_bytes = <<>> /\ pending_offset = 0
  \/ /\ pending_bytes \in Fragments
     /\ pending_offset < Len(pending_bytes)
     /\ \A i \in DOMAIN form : pending_bytes # form[i].content.data

\* the changes of state that go with a call of set_pending
SetsPending(path) ==
  Edges(path) \cap { <<"PartHeader", "PartContent">>, <<"PartTrailer", "PartHeader">>,
                     <<"Finished", "Done">> } # {}

\* C16: with reads into non-empty buffers, pending_bytes is empty with offset
\* 0, or is one fragment (a part's header block, a CRLF, the closing
\* delimiter) with pending_offset below its length, never part content; and
\* set_pending is called only when nothing of the last fragment is left.
PendingOneFragment ==
  [][/\ PendingIsFragment
     /\ PendingIsFragment'
     /\ \A in \in Inputs :
          DoRead(in[1], in[2]) /\ SetsPending(ReadPath(Reader, boundary, in[1], in[2])) =>
            pending_offset >= Len(pending_bytes)]_vars

\* half of a part's CRLF is out and another part waits
PendingOneFragmentWitness ==
  /\ pending_bytes = CRLF
  /\ pending_offset = 1
  /\ parts # <<>>

\* a call of read that starts in PartHeader with nothing pending and no part
EvaluatesEmptyQueue ==
  state = "PartHeader" /\ parts = <<>> /\ pending_offset >= Len(pending_bytes)

\* C19 as stated: a read that finds the queue empty in PartHeader leaves the
\* reader in Finished and puts no bytes in the caller's buffer
EmptyQueueNoBytes ==
  [][EvaluatesEmptyQueue => state' = "Finished" /\ out' = out]_vars

\* C19: a read that finds the queue empty in PartHeader goes to Finished and,
\* in the same call, on to Done: it returns the first bytes of the closing
\* delimiter, as many as the caller's buffer takes, and keeps the rest
\* pending.
EmptyQueueFinishes ==
  [][EvaluatesEmptyQueue =>
       \E in \in Inputs :
         /\ in[1] > 0
         /\ ReadPath(Reader, boundary, in[1], in[2]) = <<"PartHeader", "Finished", "Done">>
         /\ state' = "Done"
         /\ out' = out \o SubSeq(final_boundary(boundary), 1,
                                  Min(in[1], Len(final_boundary(boundary))))
         /\ out' # out
         /\ IF in[1] < Len(final_boundary(boundary))
              THEN pending_bytes' = final_boundary(boundary) /\ pending_offset' = in[1]
              ELSE pending_bytes' = <<>> /\ pending_offset' = 0]_vars

\* the closing delimiter of a form with parts has begun, in a small buffer
EmptyQueueFinishesWitness ==
  /\ form # <<>>
  /\ state = "Done"
  /\ pending_bytes = final_boundary(boundary)
  /\ pending_offset \in 1..MaxBuf

\* ----------------------------------------- the writers' calls on the sink
\* the calls on the outgoing body, the sink and its waiter
SinkLog == SelectSeq(log, LAMBDA e : e.op # "read")

\* the writes among the first i calls
WritesUpTo(l, i) == { j \in 1..i : l[j].op = "write" }

\* C17: a run of either writer that opened the sink and returned Ok made, in
\* this order: one open, one subscribe, then rounds of block, check_write,
\* write (none, or more), one flush, one block, one check_write; and in no
\* run, finished or not, is the sink opened twice or written after a flush.
SinkCallOrder ==
  LET l == SinkLog
      n == Len(l)
      rounds == (n - 5) \div 3
  IN  /\ (result = "Ok" /\ log # <<>>) =>
            /\ n >= 5 /\ (n - 5) % 3 = 0
            /\ l[1].op = "open" /\ l[2].op = "subscribe"
            /\ \A j \in 0..(rounds - 1) :
                  /\ l[3 + 3 * j].op = "block"
                  /\ l[4 + 3 * j].op = "check_write"
                  /\ l[5 + 3 * j].op = "write"
            /\ l[n - 2].op = "flush" /\ l[n - 1].op = "block" /\ l[n].op = "check_write"
            /\ \A i \in DOMAIN l : l[i].ok
      /\ \A i, j \in DOMAIN l :
            /\ (l[i].op = "open" /\ l[j].op = "open") => i = j
            /\ (l[i].op = "subscribe" /\ l[j].op = "subscribe") => i = j
            /\ (l[i].op = "flush" /\ l[j].op = "flush") => i = j
            /\ (l[i].op = "flush" /\ i < j) => l[j].op # "write"

\* stream_to_outgoing_body returned Ok after two pulls and three writes
SinkCallOrderWitness ==
  /\ wfn = "stream_to_outgoing_body" /\ result = "Ok"
  /\ Cardinality(WritesUpTo(log, Len(log))) = 3
  /\ Cardinality({ i \in DOMAIN log : log[i].op = "read" /\ log[i].len > 0 }) = 2
  /\ stalls > 0

\* min(permit, n) of a u64 permit and a length below 2^32
MinOfPermit(p, n) == IF p.hi > 0 THEN n ELSE Min(p.lo, n)

\* C18 as stated: stream_to_outgoing_body asks the producer for at most
\* STREAM_CHUNK_SIZE bytes at a time, asks again only when every byte of the
\* last pull went to a write, each write taking min(permit, bytes left of the
\* pull), never asks after a pull of 0 bytes, and when it returns Ok the
\* writes joined are the pulls joined.
PullsThenWrites ==
  [][wfn = "stream_to_outgoing_body" =>
       /\ (pc = "read" /\ Len(log') > Len(log) /\ Last(log').ok) =>
             /\ Last(log').op = "read"
             /\ Last(log').len <= STREAM_CHUNK_SIZE
             /\ buf.len = 0
             /\ Len(Sunk(log)) = pulled
             /\ \A i \in DOMAIN log : log[i].op = "read" => log[i].len > 0
       /\ (pc = "write" /\ Len(log') > Len(log)) =>
             /\ Last(log').op = "write"
             /\ Last(log').len = MinOfPermit(permit, buf.len)
       /\ result' = "Ok" =>
             /\ Sunk(log') = [i \in 1..pulled' |-> i]
             /\ pulled' = srclen]_vars

\* ------------------------------------------------ reads into empty buffers
\* C20 as stated: a read with an empty buffer, at any point of the drain,
\* returns 0 and leaves the reader as it was (its state, its pending bytes
\* and offset, its parts and what is left of their content), so that the
\* reads after it return what they would have returned without it.
ZeroReadNoEffect ==
  [][DoRead(0, 0) =>
       /\ out' = out
       /\ UNCHANGED <<parts, state, pending_bytes, pending_offset>>
       /\ Drain(Reader', boundary, MiB) = Drain(Reader, boundary, MiB)]_vars

\* --------------------------------------------------- failing producers
\* C21: a read that fails in PartContent because the part's producer failed
\* puts no bytes in the buffer and leaves state, parts and pending bytes as
\* they were, so the next read asks the same producer again; and whatever
\* failures there were, the bytes returned are at every point a prefix of the
\* body and at end-of-data the whole body: none twice, none lost.
ProducerErrorKeepsPlace ==
  [][/\ (~failed /\ failed') =>
          /\ state = "PartContent"
          /\ UNCHANGED <<parts, state, pending_bytes, pending_offset, out>>
          /\ pending_offset' >= Len(pending_bytes')
          /\ parts' # <<>> /\ Head(parts').content.kind = "Reader"
          /\ Head(parts') = Head(parts)
     /\ IsPrefix(out', WholeBody)
     /\ eof' => out' = WholeBody]_vars

\* a producer failed, was asked again, and the body came out whole
ProducerErrorKeepsPlaceWitness ==
  /\ failed
  /\ eof
  /\ out = WholeBody
  /\ \E i \in DOMAIN form : form[i].content.kind = "Reader" /\ form[i].content.data # <<>>

\* ------------------------------------------------------ the part queue
\* what was rendered so far: the bytes returned and the bytes still pending
Rendered == out \o SubSeq(pending_bytes, pending_offset + 1, Len(pending_bytes))

\* in PartContent and PartTrailer the queue's front is the part whose header
\* was rendered last, with what is left of its content, and behind it are the
\* parts not yet begun; in Finished and Done the queue is empty
FrontIsCurrentPart ==
  /\ state \in {"PartContent", "PartTrailer"} =>
        /\ parts # <<>>
        /\ LET j == Len(form) - Len(parts) + 1
               used == Len(form[j].content.data) - Len(Head(parts).content.data)
           IN  /\ used >= 0
               /\ Rendered = Blocks(SubSeq(form, 1, j - 1), boundary)
                               \o build_header(form[j], boundary)
                               \o SubSeq(form[j].content.data, 1, used)
               /\ Head(parts) =
                    [form[j] EXCEPT !.content.data = SubSeq(@, used + 1, Len(@))]
               /\ Tail(parts) = SubSeq(form, j + 1, Len(form))
  /\ state \in {"Finished", "Done"} => parts = <<>>

\* C22: with reads into non-empty buffers, in PartContent and PartTrailer
\* the queue is not empty and its front is the part whose header was
\* rendered last; in Finished and Done it is empty; a read never lengthens
\* it and shortens it by one exactly when it passes PartTrailer; Finished is
\* entered from PartHeader only, with the queue empty, never from
\* PartContent.
QueueFollowsState ==
  [][/\ FrontIsCurrentPart
     /\ FrontIsCurrentPart'
     /\ \A in \in Inputs :
          DoRead(in[1], in[2]) =>
            LET path == ReadPath(Reader, boundary, in[1], in[2])
            IN  /\ <<"PartContent", "Finished">> \notin Edges(path)
                /\ <<"PartHeader", "Finished">> \in Edges(path) => parts = <<>>
                /\ Len(parts') =
                     Len(parts) - (IF <<"PartTrailer", "PartHeader">> \in Edges(path)
                                     THEN 1 ELSE 0)]_vars

\* the second of two parts has given all of its content and is still in
\* the queue
QueueFollowsStateWitness ==
  /\ Len(form) = 2
  /\ state = "PartTrailer"
  /\ Len(parts) = 1
  /\ form[2].content.data # <<>>

\* ------------------------------------------------------------ termination
\* C23: with a caller that keeps reading into non-empty buffers, and
\* producers that give their bytes and then 0, the reader comes to Done with
\* nothing pending and a read returns 0; and no call of read goes through
\* more than three states (two changes of state) before it returns.
ReaderTerminates ==
  /\ <>(eof /\ state = "Done" /\ pending_bytes = <<>> /\ pending_offset = 0)
  /\ [](\A in \in Inputs : Len(ReadPath(Reader, boundary, in[1], in[2])) <= 3)

\* a form with a reader-backed part was read to the 0 of its end
ReaderTerminatesWitness ==
  /\ eof /\ state = "Done" /\ pending_bytes = <<>>
  /\ Len(form) = MaxLiveParts
  /\ form[1].content.kind = "Reader" /\ Len(form[1].content.data) = MaxContent
  /\ after = 0

\* a permit above 0
Positive(p) == p.hi > 0 \/ p.lo > 0

\* C24 as stated, as the steps its eventual return rests on: in
\* write_to_outgoing_body a positive permit with bytes left makes the write
\* that follows take at least one of them, so that positive permits coming
\* again and again end the loop; and a permit of 0 makes that write take
\* none, drop none, and be followed by another block and check_write.
PositivePermitProgress ==
  [][(wfn = "write_to_outgoing_body" /\ pc = "write"
        /\ Len(log') > Len(log) /\ Last(log').ok) =>
       /\ (Positive(permit) /\ buf.len > 0) =>
             /\ Last(log').len > 0
             /\ buf'.len < buf.len
       /\ ~Positive(permit) =>
             /\ Last(log').len = 0
             /\ buf' = buf
             /\ pc' = "block"
       /\ IsPrefix(Sunk(log'), Source)
       /\ Len(Sunk(log')) + buf'.len = srclen
       /\ pc' = "flush" <=> buf'.len = 0]_vars
====
